---- MODULE Spec2Model ----
(***************************************************************************)
(* A model of src/App.js (sales-targets-mobile): the monthly KPI store of  *)
(* the React Native screen, its persistence in AsyncStorage, the JSON      *)
(* import/export, the e-mail settings, the notification dispatch and the   *)
(* background e-mail task.                                                 *)
(*                                                                         *)
(* Conventions of the model                                                *)
(*  - A JavaScript number is a record [k, n]: k = "num" with the integer   *)
(*    n, or k = "nan" (NaN), or k = "null" (the JSON null a NaN becomes).   *)
(*  - A persisted string is [has, v]: has = FALSE is a key that is not in   *)
(*    AsyncStorage (getItem resolves to null).                              *)
(*  - AsyncStorage serves its requests in the order they are issued, so a   *)
(*    getItem/setItem takes effect at the step that issues it.              *)
(*  - One action is one event handler together with the render and the     *)
(*    effects React runs for it (the persist effects of lines 244-253);     *)
(*    the state updates of one handler are rendered as one batch.           *)
(*  - Every await of an async function is a step boundary.                  *)
(***************************************************************************)
EXTENDS Integers, Sequences, FiniteSets, TLC

VARIABLES
    pc,            \* the App component: "off", or the position of the load effect (222-241)
    store,         \* useState store (203)
    month,         \* useState month (204)
    targets,       \* useState targets (208)
    associates,    \* useState associates (209)
    emailTo,       \* useState emailTo (217)
    emailWebhook,  \* useState emailWebhook (218)
    sendHour,      \* useState sendHour (219)
    rawRead,       \* the value the load effect's getItem(LS_KEY) resolves to (224)
    itemRead,      \* the value the load effect's pending getItem of an e-mail key resolves to
    registered,    \* whether the background task is registered with the OS (191)
    nextId,        \* how many identifiers genId has handed out
    exported,      \* the last EXPORT_JSON text on the console and the state it was made from
    last,          \* the last operation performed
    ops,           \* number of user operations performed so far
    saved,         \* the e-mail settings that were persisted when the process was last killed
    pStore,        \* AsyncStorage[LS_KEY]
    pTo,           \* AsyncStorage[EMAIL_TO_KEY]
    pWebhook,      \* AsyncStorage[EMAIL_WEBHOOK_URL_KEY]
    pHour,         \* AsyncStorage[SEND_HOUR_KEY]
    sendpc,        \* sendDailyEmailNow: "idle", "posting", "sent", "failed", "mailto", "nopath"
    sendPosts,     \* POSTs issued by the current interactive attempt
    now,           \* local time of day in minutes, when the background task wakes
    bgpc,          \* background task: "idle", "read", "posting", "done"
    bgRead,        \* what the background task read from AsyncStorage
    bgResult,      \* BackgroundFetchResult of the finished run
    bgPosts,       \* POSTs issued by the current background run
    pctIn,         \* arguments of a pct call
    pctOut,        \* its result
    csvIn,         \* the associate list buildCSVFromAssociates is called with
    csvOut,        \* the text it returns
    lbIn,          \* the associates and targets the leaderboard is computed from
    lbOut,         \* the leaderboard
    idEnv,         \* what globalThis.crypto.randomUUID is in this runtime, and the clock Date.now() reads
    idLog          \* the identifiers genId has returned, the latest last

vars == <<pc, store, month, targets, associates, emailTo, emailWebhook, sendHour,
          rawRead, itemRead, registered, nextId, exported, last, ops, saved, pStore, pTo, pWebhook,
          pHour, sendpc, sendPosts, now, bgpc, bgRead, bgResult, bgPosts, pctIn, pctOut,
          csvIn, csvOut, lbIn, lbOut, idEnv, idLog>>

storeVars == <<store, month, targets, associates, pStore>>
emailVars == <<emailTo, emailWebhook, sendHour, pTo, pWebhook, pHour>>
sendVars  == <<sendpc, sendPosts>>
bgVars    == <<now, bgpc, bgRead, bgResult, bgPosts>>
pctVars   == <<pctIn, pctOut>>
csvVars   == <<csvIn, csvOut>>
lbVars    == <<lbIn, lbOut>>
idVars    == <<idEnv, idLog>>
pureVars  == <<pctVars, csvVars, lbVars, idVars>>

(***************************************************************************)
(* Bounds of the model                                                     *)
(***************************************************************************)
MaxOps == 3          \* user operations in one behaviour
NumMonths == 2       \* months offered by the month picker (18 in the code)
MaxNum == 2          \* magnitude of the numbers a user types

(***************************************************************************)
(* JavaScript values                                                       *)
(***************************************************************************)
Num(n) == [k |-> "num", n |-> n]
NaN    == [k |-> "nan", n |-> 0]
Null   == [k |-> "null", n |-> 0]

NoItem  == [has |-> FALSE, v |-> ""]
Item(s) == [has |-> TRUE, v |-> s]
\* x || d for a string-or-null x
OrElse(x, d) == IF x.has /\ x.v # "" THEN x.v ELSE d

\* Number(txt) for a text field: "" is 0, a decimal integer is itself, anything else NaN
NumberOf(txt) ==
    IF txt = "" THEN Num(0)
    ELSE IF \E n \in -(MaxNum + 30)..(MaxNum + 30) : ToString(n) = txt
         THEN Num(CHOOSE n \in -(MaxNum + 30)..(MaxNum + 30) : ToString(n) = txt)
         ELSE NaN

Metrics == <<"connects", "geoData", "buyerAppointments", "marketAppraisals", "listingsGenerated">>
MetricSet == {Metrics[i] : i \in 1..Len(Metrics)}

DEFAULT_TARGETS ==
    [connects |-> Num(800), geoData |-> Num(50), buyerAppointments |-> Num(20),
     marketAppraisals |-> Num(25), listingsGenerated |-> Num(1)]

DEFAULT_EMAIL == "john.yatman@raywhite.com"
DEFAULT_SEND_HOUR == 18

\* monthKey(d) of the months the picker lists (256-260), the current month first
MonthKeys == <<"2026-11", "2026-10", "2026-09", "2026-08", "2026-07">>
Months == {MonthKeys[i] : i \in 1..NumMonths}
\* monthKey() with no argument: the current month
monthKey == MonthKeys[1]

ZeroMetrics == [k \in MetricSet |-> Num(0)]

\* genId(): the n-th identifier handed out
genId(n) == n

(***************************************************************************)
(* JSON.stringify / JSON.parse                                             *)
(* A JSON text is [kind, keys, month, targets, associates]: kind "garbage" *)
(* does not parse, "scalar" parses to something that is no object, and     *)
(* "object" parses to an object with the keys in `keys`.  The persisted    *)
(* Store text is [kind, v]: "absent", "garbage" or "json" with the object.  *)
(***************************************************************************)
Put(f, k, v) == [x \in DOMAIN f \cup {k} |-> IF x = k THEN v ELSE f[x]]

\* JSON.stringify writes NaN as null
SerNum(x) == IF x.k = "nan" THEN Null ELSE x
SerMetrics(f) == [k \in DOMAIN f |-> SerNum(f[k])]
SerAssociate(a) == [id |-> a.id, name |-> a.name, metrics |-> SerMetrics(a.metrics)]
SerAssociates(as) == [i \in 1..Len(as) |-> SerAssociate(as[i])]
SerMonthState(s) == [targets |-> SerMetrics(s.targets), associates |-> SerAssociates(s.associates)]

AllKeys == {"month", "targets", "associates"}

\* JSON.stringify({ month, targets, associates }) (287-289)
JSONStringifyPayload(m, t, as) ==
    [kind |-> "object", keys |-> AllKeys, month |-> m,
     targets |-> SerMetrics(t), associates |-> SerAssociates(as)]

EmptyStore == [m \in {} |-> [targets |-> DEFAULT_TARGETS, associates |-> <<>>]]
AbsentStore == [kind |-> "absent", v |-> EmptyStore]
GarbageStore == [kind |-> "garbage", v |-> EmptyStore]

\* JSON.stringify(next) of the Store (247)
JSONStringifyStore(st) == [kind |-> "json", v |-> [m \in DOMAIN st |-> SerMonthState(st[m])]]

\* const next = { ...store, [month]: { targets, associates } } (245)
PersistNext(st, m, t, as) == Put(st, m, [targets |-> t, associates |-> as])

\* store[month] || { targets: DEFAULT_TARGETS, associates: [] } (154, 206)
MonthStateOf(st, m) ==
    IF m \in DOMAIN st THEN st[m] ELSE [targets |-> DEFAULT_TARGETS, associates |-> <<>>]

\* the three sample associates of the load effect (227-231)
SampleMetrics(c, g, b, a, l) ==
    [connects |-> Num(c), geoData |-> Num(g), buyerAppointments |-> Num(b),
     marketAppraisals |-> Num(a), listingsGenerated |-> Num(l)]
Seeds(n) ==
    << [id |-> genId(n + 1), name |-> "Alex",   metrics |-> SampleMetrics(120, 10, 3, 4, 0)],
       [id |-> genId(n + 2), name |-> "Bianca", metrics |-> SampleMetrics(300, 18, 7, 10, 1)],
       [id |-> genId(n + 3), name |-> "Chris",  metrics |-> SampleMetrics(90, 5, 1, 2, 0)] >>

(***************************************************************************)
(* Inputs of the model                                                     *)
(***************************************************************************)
EditKeys == {"connects", "listingsGenerated"}      \* the metric fields the user edits
NumberTexts == {ToString(MaxNum), "-1", "-"}       \* what the user types into a number field
NameTexts == {" Dana ", "  "}                      \* what the user types into the name field

\* newName.trim() (281)
Trim(s) == IF s = " Dana " THEN "Dana" ELSE IF s = "  " THEN "" ELSE s

EmptyMetrics == [k \in {} |-> Null]
GarbageText == [kind |-> "garbage", keys |-> {}, month |-> "", targets |-> EmptyMetrics, associates |-> <<>>]
ScalarText  == [kind |-> "scalar",  keys |-> {}, month |-> "", targets |-> EmptyMetrics, associates |-> <<>>]
\* {"month":"2026-10","targets":{"connects":5},"associates":[{"id":0,"name":"Eve","metrics":{"connects":1}}]}
OtherMonthText ==
    [kind |-> "object", keys |-> AllKeys, month |-> MonthKeys[2],
     targets |-> [k \in {"connects"} |-> Num(5)],
     associates |-> << [id |-> 0, name |-> "Eve", metrics |-> [k \in {"connects"} |-> Num(1)]] >>]
\* the same text with one of its keys left out
Without(key) == [OtherMonthText EXCEPT !.keys = AllKeys \ {key}]
\* {"month":"","targets":{...},"associates":[...]}
EmptyMonthText == [OtherMonthText EXCEPT !.month = ""]
\* {"month":"2026-11","targets":{},"associates":[]}
EmptyStateText ==
    [kind |-> "object", keys |-> AllKeys, month |-> monthKey, targets |-> EmptyMetrics, associates |-> <<>>]
ImportTexts ==
    {GarbageText, ScalarText, OtherMonthText, EmptyMonthText, EmptyStateText}
        \cup {Without(key) : key \in AllKeys}

\* a Store persisted by a session of the month before: one month, one associate
EarlierStore ==
    [m \in {MonthKeys[2]} |->
        [targets |-> DEFAULT_TARGETS,
         associates |-> << [id |-> genId(1), name |-> "Zoe", metrics |-> ZeroMetrics] >>]]
InitStores == {AbsentStore, JSONStringifyStore(EarlierStore)}

NoExport == [has |-> FALSE, text |-> GarbageText, month |-> "", targets |-> EmptyMetrics, associates |-> <<>>]
\* the arguments of an operation on an associate: the id, the metric key and
\* value of updateMetric, the trimmed name of addAssociate
NoArg == [id |-> genId(0), key |-> "", v |-> Null, name |-> ""]
\* an operation, how it ended, for importJSON the text it was given, and for
\* an operation that changed an associate its arguments
OpT(name, flag, txt) == [op |-> name, flag |-> flag, text |-> txt, arg |-> NoArg]
OpA(name, flag, arg) == [op |-> name, flag |-> flag, text |-> GarbageText, arg |-> arg]
Op(name, flag) == OpT(name, flag, GarbageText)
NotSaved == [has |-> FALSE, ops |-> 0, to |-> NoItem, webhook |-> NoItem, hour |-> NoItem]

(***************************************************************************)
(* The App component                                                       *)
(***************************************************************************)
\* the state of a process that is not running
Blank ==
    /\ store' = EmptyStore /\ month' = monthKey
    /\ targets' = DEFAULT_TARGETS /\ associates' = <<>>
    /\ emailTo' = DEFAULT_EMAIL /\ emailWebhook' = "" /\ sendHour' = ToString(DEFAULT_SEND_HOUR)
    /\ rawRead' = AbsentStore /\ itemRead' = NoItem
    /\ sendpc' = "idle" /\ sendPosts' = 0

\* the persist effect (244-248) after a render with the new month, targets, associates
Persist(st) ==
    /\ store' = PersistNext(st, month', targets', associates')
    /\ pStore' = JSONStringifyStore(store')

\* First render and the mount effects, in the order they are declared: the load
\* effect issues getItem(LS_KEY) (224), then the persist effect writes the
\* Store of the first render (244-248), then the e-mail effects write the
\* first render's settings (251-253).
Start ==
    /\ pc = "off"
    /\ pc' = "loadStore"
    /\ month' = monthKey /\ targets' = DEFAULT_TARGETS /\ associates' = <<>>
    /\ rawRead' = pStore
    /\ Persist(EmptyStore)
    /\ emailTo' = DEFAULT_EMAIL /\ emailWebhook' = "" /\ sendHour' = ToString(DEFAULT_SEND_HOUR)
    /\ pTo' = Item(emailTo') /\ pWebhook' = Item(emailWebhook') /\ pHour' = Item(sendHour')
    /\ itemRead' = NoItem
    /\ last' = Op("start", FALSE)
    /\ UNCHANGED <<registered, nextId, exported, ops, saved, sendVars, bgVars, pureVars>>

\* raw ? JSON.parse(raw) : {} (225); defined when raw is not garbage
ParsedStore(raw) == IF raw.kind = "json" THEN raw.v ELSE EmptyStore

\* if (!obj[month]) obj[month] = { default targets, the three samples } (226-232)
SeedsNeeded(obj) == monthKey \notin DOMAIN obj
LoadedStore(obj, n) ==
    IF SeedsNeeded(obj)
    THEN Put(obj, monthKey, [targets |-> DEFAULT_TARGETS, associates |-> Seeds(n)])
    ELSE obj

\* The load effect from the resolution of getItem(LS_KEY) to the next await
\* (224-235).  JSON.parse of line 225 is outside any try: when it throws, the
\* async function ends there.
LoadStore ==
    /\ pc = "loadStore"
    /\ IF rawRead.kind = "garbage"
       THEN /\ pc' = "aborted"
            /\ last' = Op("loadStore", FALSE)
            /\ UNCHANGED <<storeVars, nextId, itemRead>>
       ELSE LET obj == LoadedStore(ParsedStore(rawRead), nextId) IN
            /\ pc' = "loadTo"
            /\ nextId' = IF SeedsNeeded(ParsedStore(rawRead)) THEN nextId + 3 ELSE nextId
            /\ month' = month
            /\ targets' = obj[monthKey].targets
            /\ associates' = obj[monthKey].associates
            /\ Persist(obj)
            /\ itemRead' = pTo
            /\ last' = Op("loadStore", SeedsNeeded(ParsedStore(rawRead)))
    /\ UNCHANGED <<emailVars, rawRead, registered, exported, ops, saved, sendVars, bgVars, pureVars>>

\* s.replace(/"/g, '') (235-236), on the texts of the model
StripQuotes(s) == IF s = "\"a\"@x.io" THEN "a@x.io" ELSE s

\* useEffect(() => safeStoreSet(KEY, value), [value]) (251-253): runs when the value changed
EffectWrite(old, new, item) == IF new # old THEN Item(new) ELSE item

\* savedTo (235)
LoadTo ==
    /\ pc = "loadTo"
    /\ pc' = "loadWebhook"
    /\ emailTo' = StripQuotes(OrElse(itemRead, DEFAULT_EMAIL))
    /\ pTo' = EffectWrite(emailTo, emailTo', pTo)
    /\ itemRead' = pWebhook
    /\ last' = Op("loadTo", FALSE)
    /\ UNCHANGED <<storeVars, emailWebhook, sendHour, pWebhook, pHour, rawRead, registered,
                   nextId, exported, ops, saved, sendVars, bgVars, pureVars>>

\* savedWebhook (236)
LoadWebhook ==
    /\ pc = "loadWebhook"
    /\ pc' = "loadHour"
    /\ emailWebhook' = StripQuotes(OrElse(itemRead, ""))
    /\ pWebhook' = EffectWrite(emailWebhook, emailWebhook', pWebhook)
    /\ itemRead' = pHour
    /\ last' = Op("loadWebhook", FALSE)
    /\ UNCHANGED <<storeVars, emailTo, sendHour, pTo, pHour, rawRead, registered,
                   nextId, exported, ops, saved, sendVars, bgVars, pureVars>>

\* savedHour (237)
LoadHour ==
    /\ pc = "loadHour"
    /\ pc' = "register"
    /\ sendHour' = OrElse(itemRead, ToString(DEFAULT_SEND_HOUR))
    /\ pHour' = EffectWrite(sendHour, sendHour', pHour)
    /\ itemRead' = NoItem
    /\ last' = Op("loadHour", FALSE)
    /\ UNCHANGED <<storeVars, emailTo, emailWebhook, pTo, pWebhook, rawRead, registered,
                   nextId, exported, ops, saved, sendVars, bgVars, pureVars>>

\* registerDailyEmailTask (184-197): false when background fetch is restricted or denied
registerDailyEmailTask(status) == status \notin {"Restricted", "Denied"}

Register ==
    /\ pc = "register"
    /\ pc' = "ready"
    /\ \E status \in {"Available", "Restricted", "Denied"} :
          /\ registered' = (registered \/ registerDailyEmailTask(status))
          /\ last' = Op("register", registerDailyEmailTask(status))
    /\ UNCHANGED <<storeVars, emailVars, rawRead, itemRead, nextId, exported, ops, saved,
                   sendVars, bgVars, pureVars>>

\* the process is killed: the in-memory state is gone, AsyncStorage stays
Kill ==
    /\ pc # "off"
    /\ pc' = "off"
    /\ Blank
    /\ last' = Op("kill", FALSE)
    /\ saved' = [has |-> TRUE, ops |-> ops, to |-> pTo, webhook |-> pWebhook, hour |-> pHour]
    /\ UNCHANGED <<pStore, pTo, pWebhook, pHour, registered, nextId, exported, ops,
                   bgVars, pureVars>>

(***************************************************************************)
(* User operations on the Store                                            *)
(***************************************************************************)
\* The user acts while the Store load is pending, after the load effect has
\* ended, or after it was aborted (not between its reads of the e-mail keys,
\* which touch no variable a Store operation reads or writes).
CanAct == pc \in {"loadStore", "aborted", "ready"} /\ ops < MaxOps
ActedT(name, flag, txt) ==
    /\ ops' = ops + 1
    /\ last' = OpT(name, flag, txt)
    /\ UNCHANGED <<pc, emailVars, rawRead, itemRead, registered, saved, sendVars, bgVars, pureVars>>
Acted(name, flag) == ActedT(name, flag, GarbageText)
ActedA(name, flag, arg) ==
    /\ ops' = ops + 1
    /\ last' = OpA(name, flag, arg)
    /\ UNCHANGED <<pc, emailVars, rawRead, itemRead, registered, saved, sendVars, bgVars, pureVars>>

\* onPress={() => setMonth(m.key)} (367): the new month is rendered with the
\* targets and associates held in state, and the persist effect stores them under it
SelectMonth(m) ==
    /\ CanAct
    /\ month' = m
    /\ UNCHANGED <<targets, associates, nextId, exported>>
    /\ IF m # month THEN Persist(store) ELSE UNCHANGED <<store, pStore>>
    /\ Acted("select", m \notin DOMAIN store)

\* addAssociate (281)
addAssociate(as, name, n) ==
    Append(as, [id |-> genId(n + 1), name |-> Trim(name), metrics |-> ZeroMetrics])

AddAssociate(name) ==
    /\ CanAct
    /\ IF Trim(name) = ""
       THEN UNCHANGED <<storeVars, nextId>>
       ELSE /\ associates' = addAssociate(associates, name, nextId)
            /\ nextId' = nextId + 1
            /\ UNCHANGED <<month, targets>>
            /\ Persist(store)
    /\ UNCHANGED exported
    /\ ActedA("add", Trim(name) # "", [NoArg EXCEPT !.name = Trim(name)])

\* updateMetric (283)
ValidMetric(v) == v.k = "num" /\ v.n >= 0
\* updateMetric as it would be without the test of the id
updateMetric_everyone(as, id, key, v) ==
    [i \in 1..Len(as) |-> [as[i] EXCEPT !.metrics = Put(as[i].metrics, key, v)]]
updateMetric(as, id, key, v) ==
    [i \in 1..Len(as) |->
        IF as[i].id = id THEN [as[i] EXCEPT !.metrics = Put(as[i].metrics, key, v)] ELSE as[i]]

IdsOf(as) == {as[i].id : i \in 1..Len(as)}

UpdateMetric(id, key, txt) ==
    /\ CanAct
    /\ id \in IdsOf(associates)
    /\ IF ValidMetric(NumberOf(txt))
       THEN /\ associates' = updateMetric(associates, id, key, NumberOf(txt))
            /\ UNCHANGED <<month, targets>>
            /\ Persist(store)
       ELSE UNCHANGED storeVars
    /\ UNCHANGED <<nextId, exported>>
    /\ IF ValidMetric(NumberOf(txt))
       THEN ActedA("update", TRUE, [NoArg EXCEPT !.id = id, !.key = key, !.v = NumberOf(txt)])
       ELSE Acted("update", FALSE)

\* deleteAssociate (284)
deleteAssociate(as, id) == SelectSeq(as, LAMBDA a : a.id # id)

DeleteAssociate(id) ==
    /\ CanAct
    /\ id \in IdsOf(associates)
    /\ associates' = deleteAssociate(associates, id)
    /\ UNCHANGED <<month, targets, nextId, exported>>
    /\ Persist(store)
    /\ ActedA("delete", TRUE, [NoArg EXCEPT !.id = id])

\* the targets input (460): setTargets((t) => ({ ...t, [k]: Number(txt) }))
setTarget(t, k, txt) == Put(t, k, NumberOf(txt))

SetTarget(k, txt) ==
    /\ CanAct
    /\ targets' = setTarget(targets, k, txt)
    /\ UNCHANGED <<month, associates, nextId, exported>>
    /\ Persist(store)
    /\ Acted("target", NumberOf(txt).k = "num")

\* resetMonth (297)
ResetMonth ==
    /\ CanAct
    /\ targets' = DEFAULT_TARGETS
    /\ associates' = <<>>
    /\ UNCHANGED <<month, nextId, exported>>
    /\ Persist(store)
    /\ Acted("reset", TRUE)

\* exportJSON (286-290)
exportJSON(m, t, as) == JSONStringifyPayload(m, t, as)

ExportJSON ==
    /\ CanAct
    /\ exported' = [has |-> TRUE, text |-> exportJSON(month, targets, associates),
                    month |-> month, targets |-> targets, associates |-> associates]
    /\ UNCHANGED <<storeVars, nextId>>
    /\ Acted("export", TRUE)

\* importJSON (293-296): JSON.parse throws on garbage, a non-object is refused,
\* and obj.month && obj.targets && obj.associates needs the three keys truthy
ImportAccepts(txt) ==
    /\ txt.kind = "object"
    /\ AllKeys \subseteq txt.keys
    /\ txt.month # ""

\* importJSON as it would be with setMonth called before the other keys are checked
importJSON_monthFirst(txt, cur) ==
    IF txt.kind = "object" /\ "month" \in txt.keys /\ txt.month # ""
    THEN IF ImportAccepts(txt)
         THEN [month |-> txt.month, targets |-> txt.targets, associates |-> txt.associates]
         ELSE [cur EXCEPT !.month = txt.month]
    ELSE cur

\* the month, targets and associates after importJSON of txt
importJSON(txt, cur) ==
    IF ImportAccepts(txt)
    THEN [month |-> txt.month, targets |-> txt.targets, associates |-> txt.associates]
    ELSE cur

ImportJSON(txt) ==
    /\ CanAct
    /\ LET new == importJSON(txt, [month |-> month, targets |-> targets, associates |-> associates]) IN
       /\ month' = new.month
       /\ targets' = new.targets
       /\ associates' = new.associates
    /\ IF ImportAccepts(txt) THEN Persist(store) ELSE UNCHANGED <<store, pStore>>
    /\ UNCHANGED <<nextId, exported>>
    /\ ActedT(IF txt = exported.text /\ exported.has THEN "reimport" ELSE "import",
               ImportAccepts(txt), txt)

UserOp ==
    \/ \E m \in Months : SelectMonth(m)
    \/ \E name \in NameTexts : AddAssociate(name)
    \/ \E id \in IdsOf(associates), k \in EditKeys, txt \in NumberTexts : UpdateMetric(id, k, txt)
    \/ \E id \in IdsOf(associates) : DeleteAssociate(id)
    \/ \E k \in EditKeys, txt \in NumberTexts : SetTarget(k, txt)
    \/ ResetMonth
    \/ ExportJSON
    \/ \E txt \in ImportTexts \cup {exported.text} : ImportJSON(txt)

Load == LoadStore \/ LoadTo \/ LoadWebhook \/ LoadHour \/ Register

\* a runtime without globalThis.crypto.randomUUID, its clock at the start
NoCrypto == [uuid |-> "none", clock |-> 0]

NoRead == [store |-> AbsentStore, to |-> NoItem, webhook |-> NoItem, hour |-> NoItem]

\* a process that was never started
InitMemory ==
    /\ pc = "off"
    /\ store = EmptyStore /\ month = monthKey
    /\ targets = DEFAULT_TARGETS /\ associates = <<>>
    /\ emailTo = DEFAULT_EMAIL /\ emailWebhook = "" /\ sendHour = ToString(DEFAULT_SEND_HOUR)
    /\ rawRead = AbsentStore /\ itemRead = NoItem
    /\ registered = FALSE
    /\ nextId = 1
    /\ exported = NoExport
    /\ last = Op("init", FALSE)
    /\ ops = 0
    /\ saved = NotSaved
    /\ sendpc = "idle" /\ sendPosts = 0
    /\ now = 0 /\ bgpc = "idle" /\ bgRead = NoRead /\ bgResult = "none" /\ bgPosts = 0
    /\ pctIn = <<Num(0), Num(0)>> /\ pctOut = Num(0)
    /\ csvIn = <<>> /\ csvOut = <<>>
    /\ lbIn = [associates |-> <<>>, targets |-> DEFAULT_TARGETS] /\ lbOut = <<>>
    /\ idLog = <<>>

\* a fresh install, or the first start in a month after a session of the month before
Init ==
    /\ InitMemory /\ idEnv = NoCrypto
    /\ pStore \in InitStores
    /\ pTo = NoItem /\ pWebhook = NoItem /\ pHour = NoItem

\* one session of the app: it starts, loads, and the user works on the Store
Next == Start \/ Load \/ UserOp

Spec == Init /\ [][Next]_vars

(***************************************************************************)
(* The Settings tab: e-mail settings (468-470)                             *)
(***************************************************************************)
EmailTexts == {"a@x.io", "\"a\"@x.io"}
WebhookTexts == {"https://hook.example/send", ""}
HourTexts == {"7", ""}

CanEdit == pc # "off" /\ ops < MaxOps
Edited(name) ==
    /\ ops' = ops + 1
    /\ last' = Op(name, TRUE)
    /\ UNCHANGED <<pc, storeVars, rawRead, itemRead, registered, nextId, exported, saved,
                   sendVars, bgVars, pureVars>>

\* onChangeText={setEmailTo} (468) and its persist effect (251)
SetEmailTo(txt) ==
    /\ CanEdit
    /\ emailTo' = txt
    /\ pTo' = EffectWrite(emailTo, emailTo', pTo)
    /\ UNCHANGED <<emailWebhook, sendHour, pWebhook, pHour>>
    /\ Edited("emailTo")

\* onChangeText={setEmailWebhook} (470) and its persist effect (252)
SetEmailWebhook(txt) ==
    /\ CanEdit
    /\ emailWebhook' = txt
    /\ pWebhook' = EffectWrite(emailWebhook, emailWebhook', pWebhook)
    /\ UNCHANGED <<emailTo, sendHour, pTo, pHour>>
    /\ Edited("emailWebhook")

\* onChangeText={setSendHour} (469) and its persist effect (253)
SetSendHour(txt) ==
    /\ CanEdit
    /\ sendHour' = txt
    /\ pHour' = EffectWrite(sendHour, sendHour', pHour)
    /\ UNCHANGED <<emailTo, emailWebhook, pTo, pWebhook>>
    /\ Edited("sendHour")

EmailOp ==
    \/ \E txt \in EmailTexts : SetEmailTo(txt)
    \/ \E txt \in WebhookTexts : SetEmailWebhook(txt)
    \/ \E txt \in HourTexts : SetSendHour(txt)

\* sessions of the app with kills and restarts in between; the user edits the
\* e-mail settings, selects months and adds associates
NextRestart ==
    \/ Start \/ Load \/ Kill \/ EmailOp
    \/ \E m \in Months : SelectMonth(m)
    \/ \E name \in NameTexts : AddAssociate(name)

SpecRestart == Init /\ [][NextRestart]_vars

(***************************************************************************)
(* Notification dispatch: sendDailyEmailNow (299-316)                      *)
(***************************************************************************)
Responses == {"ok", "status", "throw"}   \* res.ok, another status, fetch throws

\* the outcome of an interactive attempt: !res.ok throws, and the catch alerts 'Send failed'
sendOutcome_statusIgnored(resp) == IF resp = "throw" THEN "failed" ELSE "sent"
sendOutcome(resp) == IF resp = "ok" THEN "sent" ELSE "failed"

\* the press of 'Send test email now' up to the await of fetch or of canOpenURL
SendNow ==
    /\ pc # "off"
    /\ sendpc # "posting"
    /\ IF emailWebhook # ""
       THEN /\ sendpc' = "posting"
            /\ sendPosts' = 1
            /\ last' = Op("sendNow", TRUE)
       ELSE /\ sendPosts' = 0
            /\ \E supported \in BOOLEAN :
                  /\ sendpc' = IF supported THEN "mailto" ELSE "nopath"
                  /\ last' = Op("sendNow", FALSE)
    /\ UNCHANGED <<pc, storeVars, emailVars, rawRead, itemRead, registered, nextId, exported,
                   ops, saved, bgVars, pureVars>>

\* fetch settles (305-307, 313-315)
SendResponse ==
    /\ pc # "off"
    /\ sendpc = "posting"
    /\ \E resp \in Responses :
          /\ sendpc' = sendOutcome(resp)
          /\ last' = Op("sendResponse", resp = "ok")
    /\ UNCHANGED <<pc, storeVars, emailVars, rawRead, itemRead, registered, nextId, exported,
                   ops, saved, sendPosts, bgVars, pureVars>>

(***************************************************************************)
(* The background e-mail task (149-182)                                    *)
(***************************************************************************)
MinutesPerDay == 1440

\* the task is woken at local time t and reads AsyncStorage (151-157)
BgWake(t) ==
    /\ bgpc \in {"idle", "done"}
    /\ bgpc' = "read"
    /\ now' = t
    /\ bgRead' = [store |-> pStore, to |-> pTo, webhook |-> pWebhook, hour |-> pHour]
    /\ bgResult' = "none"
    /\ bgPosts' = 0
    /\ last' = Op("bgWake", FALSE)
    /\ UNCHANGED <<pc, storeVars, emailVars, rawRead, itemRead, registered, nextId, exported,
                   ops, saved, sendVars, pureVars>>

\* Number((await getItem(SEND_HOUR_KEY)) || DEFAULT_SEND_HOUR) (157)
bgSendHour(item) == IF item.has /\ item.v # "" THEN NumberOf(item.v) ELSE Num(DEFAULT_SEND_HOUR)

Abs(x) == IF x < 0 THEN -x ELSE x

\* withinWindow (160-163): Math.abs(minutesNow - sendHour * 60) <= 30, false for NaN
withinWindow(h, t) == h.k = "num" /\ Abs(t - h.n * 60) <= 30

\* the task from JSON.parse to the await of fetch (152-171); JSON.parse is
\* inside the try, and the catch returns Failed (178-181)
BgGate ==
    /\ bgpc = "read"
    /\ IF bgRead.store.kind = "garbage"
       THEN /\ bgResult' = "Failed" /\ bgpc' = "done" /\ bgPosts' = bgPosts
            /\ last' = Op("bgGate", FALSE)
       ELSE LET within == withinWindow(bgSendHour(bgRead.hour), now) IN
            /\ last' = Op("bgGate", within)
            /\ IF ~within
               THEN bgResult' = "NoData" /\ bgpc' = "done" /\ bgPosts' = bgPosts
               ELSE IF OrElse(bgRead.webhook, "") # ""
                    THEN bgResult' = "none" /\ bgpc' = "posting" /\ bgPosts' = bgPosts + 1
                    ELSE bgResult' = "NoData" /\ bgpc' = "done" /\ bgPosts' = bgPosts
    /\ UNCHANGED <<pc, storeVars, emailVars, rawRead, itemRead, registered, nextId, exported,
                   ops, saved, sendVars, now, bgRead, pureVars>>

\* the result of a run whose fetch settled (172-173, 178-181)
bgOutcome(resp) == IF resp = "ok" THEN "NewData" ELSE "Failed"

BgResponse ==
    /\ bgpc = "posting"
    /\ bgpc' = "done"
    /\ \E resp \in Responses :
          /\ bgResult' = bgOutcome(resp)
          /\ last' = Op("bgResponse", resp = "ok")
    /\ UNCHANGED <<pc, storeVars, emailVars, rawRead, itemRead, registered, nextId, exported,
                   ops, saved, sendVars, now, bgRead, bgPosts, pureVars>>

\* what the task finds in AsyncStorage: the settings an earlier session wrote,
\* and a Store that is absent, damaged (text that is not JSON) or written by a session
InitHours == {NoItem, Item("x")} \cup {Item(ToString(h)) : h \in 0..23}
InitWebhooks == {NoItem, Item("https://hook.example/send")}

\* One run of the task alone, woken at any minute of the day.
InitBackground ==
    /\ InitMemory /\ idEnv = NoCrypto
    /\ pStore \in {AbsentStore, GarbageStore}
    /\ pTo = NoItem
    /\ pWebhook \in InitWebhooks
    /\ pHour \in InitHours

NextBackground ==
    \/ \E t \in 0..(MinutesPerDay - 1) : bgpc = "idle" /\ BgWake(t)
    \/ BgGate
    \/ BgResponse

SpecBackground == InitBackground /\ [][NextBackground]_vars

\* The app and the task side by side: the app starts and loads, the user sets
\* the webhook and sends; the task wakes around the send hour 0.
WakeTimes == {30, 31, 1425}

InitNotify ==
    /\ InitMemory /\ idEnv = NoCrypto
    /\ pStore \in {AbsentStore, GarbageStore, JSONStringifyStore(EarlierStore)}
    /\ pTo = NoItem
    /\ pWebhook \in InitWebhooks
    /\ pHour = Item("0")

NextNotify ==
    \/ Start \/ Load
    \/ \E txt \in WebhookTexts : SetEmailWebhook(txt)
    \/ SendNow \/ SendResponse
    \/ \E t \in WakeTimes : BgWake(t)
    \/ BgGate
    \/ BgResponse

SpecNotify == InitNotify /\ [][NextNotify]_vars

(***************************************************************************)
(* pct (48)                                                                *)
(***************************************************************************)
\* Math.round(p / q) for integers p and q # 0: the nearest integer, halves up
Round(p, q) == IF q > 0 THEN (2 * p + q) \div (2 * q) ELSE (-(2 * p) - q) \div (-(2 * q))
Min(a, b) == IF a < b THEN a ELSE b
Max(a, b) == IF a > b THEN a ELSE b

\* function pct(n, d): !d is true of 0, NaN, null; n / d * 100 is NaN for a NaN n
\* and null counts as 0 (the quotient is taken exactly here, not in floating point)
pct(n, d) ==
    IF d.k # "num" \/ d.n = 0 THEN Num(0)
    ELSE IF n.k = "nan" THEN NaN
    ELSE Num(Min(100, Round(100 * (IF n.k = "num" THEN n.n ELSE 0), d.n)))

\* the numbers pct is called with: metrics and targets typed, imported or summed
PctValues == {Num(i) : i \in (-MaxNum)..(MaxNum + 10)} \cup {NaN, Null}

PctCall ==
    /\ \E n \in PctValues, d \in PctValues :
          /\ pctIn' = <<n, d>>
          /\ pctOut' = pct(n, d)
    /\ UNCHANGED <<pc, storeVars, emailVars, rawRead, itemRead, registered, nextId, exported,
                   last, ops, saved, sendVars, bgVars, csvVars, lbVars, idVars>>

InitPct == InitMemory /\ idEnv = NoCrypto /\ pStore = AbsentStore /\ pTo = NoItem /\ pWebhook = NoItem /\ pHour = NoItem
SpecPct == InitPct /\ [][PctCall]_vars

(***************************************************************************)
(* Derived views: team totals and team targets (64-74, 262-274)            *)
(***************************************************************************)
\* a key an object does not have reads as undefined
Undefined == [k |-> "undef", n |-> 0]
Get(f, key) == IF key \in DOMAIN f THEN f[key] ELSE Undefined

\* Number(x) || 0 and Number(x || 0) (68-69, 264, 270): 0 for NaN, null and undefined
NumberOrZero(x) == IF x.k = "num" THEN x.n ELSE 0

KPI_LABELS ==
    [connects |-> "Connects", geoData |-> "Geo Data", buyerAppointments |-> "Buyer Appointments",
     marketAppraisals |-> "Market Appraisals", listingsGenerated |-> "Listings Generated"]

\* associates.reduce((s, a) => s + Number(a.metrics?.[k] || 0), 0) (68, 264)
RECURSIVE SumMetric(_, _)
SumMetric(as, key) ==
    IF as = <<>> THEN 0
    ELSE NumberOrZero(Get(Head(as).metrics, key)) + SumMetric(Tail(as), key)

\* teamTotals (262-266)
teamTotals(as) == [key \in MetricSet |-> Num(SumMetric(as, key))]

\* Math.max(1, associates.length || 1) (69, 269)
Headcount(as) == Max(1, IF Len(as) = 0 THEN 1 ELSE Len(as))

\* teamTargets (268-272): one entry for each key of targets
teamTargets(t, as) == [key \in DOMAIN t |-> Num(NumberOrZero(t[key]) * Headcount(as))]

\* chartData (274): for each label the team total and teamTargets[k]
chartData(t, as) ==
    [i \in 1..Len(Metrics) |->
        [label |-> KPI_LABELS[Metrics[i]],
         actual |-> teamTotals(as)[Metrics[i]],
         target |-> Get(teamTargets(t, as), Metrics[i])]]

\* buildSnapshotText (64-74): the sum, team target and percentage of each line
buildSnapshotText(m, as, t) ==
    [head |-> m, count |-> Len(as),
     totals |-> [i \in 1..Len(Metrics) |->
        LET sum == SumMetric(as, Metrics[i])
            teamTarget == NumberOrZero(Get(t, Metrics[i])) * Headcount(as)
        IN  [label |-> KPI_LABELS[Metrics[i]], sum |-> Num(sum),
             teamTarget |-> Num(teamTarget), p |-> pct(Num(sum), Num(teamTarget))]]]

(***************************************************************************)
(* CSV export: toCSV (50-56) and buildCSVFromAssociates (76-86)            *)
(* A text is the sequence of its characters.  A cell of a row is a string, *)
(* a number, or undefined.                                                 *)
(***************************************************************************)
MaxRows == 2         \* associates in an exported list

Quote == "\""
Newline == "\n"
Comma == ","

Text(chars) == [k |-> "str", n |-> 0, s |-> chars]
Number(n)   == [k |-> "num", n |-> n, s |-> <<>>]
Missing     == [k |-> "undef", n |-> 0, s |-> <<>>]

DigitChars == <<"0", "1", "2", "3", "4", "5", "6", "7", "8", "9">>
RECURSIVE Digits(_)
Digits(n) ==
    IF n < 10 THEN <<DigitChars[n + 1]>>
    ELSE Append(Digits(n \div 10), DigitChars[(n % 10) + 1])

\* String(r[h] ?? '') (53-54): undefined becomes the empty string
StringOf(v) ==
    IF v.k = "str" THEN v.s
    ELSE IF v.k = "num" THEN (IF v.n < 0 THEN <<"-">> \o Digits(-v.n) ELSE Digits(v.n))
    ELSE <<>>

\* s.replaceAll('"', '""') (53)
RECURSIVE replaceAll(_)
replaceAll(s) ==
    IF s = <<>> THEN <<>>
    ELSE (IF Head(s) = Quote THEN <<Quote, Quote>> ELSE <<Head(s)>>) \o replaceAll(Tail(s))

\* escape as it would be without the doubling of embedded quotes
escape_noDoubling(v) == <<Quote>> \o StringOf(v) \o <<Quote>>
\* const escape = (v) => `"${String(v).replaceAll('"', '""')}"` (53)
escape(v) == <<Quote>> \o replaceAll(StringOf(v)) \o <<Quote>>

\* parts.join(sep)
RECURSIVE Join(_, _)
Join(parts, sep) ==
    IF parts = <<>> THEN <<>>
    ELSE IF Len(parts) = 1 THEN parts[1]
    ELSE parts[1] \o sep \o Join(Tail(parts), sep)

\* Object.keys(rows[0]) of the rows buildCSVFromAssociates makes (78-83), as texts
CsvHeaders ==
    << [key |-> "Name",              text |-> <<"N", "a", "m", "e">>],
       [key |-> "Connects",          text |-> <<"C", "o", "n", "n", "e", "c", "t", "s">>],
       [key |-> "GeoData",           text |-> <<"G", "e", "o", "D", "a", "t", "a">>],
       [key |-> "BuyerAppointments", text |-> <<"B", "u", "y", "e", "r", "A", "p", "p", "o", "i", "n",
                                                "t", "m", "e", "n", "t", "s">>],
       [key |-> "MarketAppraisals",  text |-> <<"M", "a", "r", "k", "e", "t", "A", "p", "p", "r", "a",
                                                "i", "s", "a", "l", "s">>],
       [key |-> "ListingsGenerated", text |-> <<"L", "i", "s", "t", "i", "n", "g", "s", "G", "e", "n",
                                                "e", "r", "a", "t", "e", "d">>] >>

\* toCSV (50-56)
toCSV(rows) ==
    IF Len(rows) = 0 THEN <<>>
    ELSE LET headers == CsvHeaders
             line(r) == Join([j \in 1..Len(headers) |-> escape(r[headers[j].key])], <<Comma>>)
             lines == <<Join([j \in 1..Len(headers) |-> headers[j].text], <<Comma>>)>>
                          \o [i \in 1..Len(rows) |-> line(rows[i])]
         IN  Join(lines, <<Newline>>)

\* a.metrics.connects || 0 (79-83)
MetricOrZero(m, key) == Number(NumberOrZero(Get(m, key)))

\* buildCSVFromAssociates (76-86)
buildCSVFromAssociates(as) ==
    toCSV([i \in 1..Len(as) |->
        [Name |-> as[i].name,
         Connects |-> MetricOrZero(as[i].metrics, "connects"),
         GeoData |-> MetricOrZero(as[i].metrics, "geoData"),
         BuyerAppointments |-> MetricOrZero(as[i].metrics, "buyerAppointments"),
         MarketAppraisals |-> MetricOrZero(as[i].metrics, "marketAppraisals"),
         ListingsGenerated |-> MetricOrZero(as[i].metrics, "listingsGenerated")]])

\* the names and metrics of exported associates: typed names, imported names
\* with a comma, with quotes, with a line break, or with no name at all;
\* metrics that are complete, partial, or null and negative after an import
CsvNames ==
    { Text(<<"D", "a", "n", "a">>), Text(<<"a", Comma, " ", "b">>), Text(<<Quote, "q", Quote>>),
      Text(<<"x", Newline, Quote>>), Missing }
CsvMetrics ==
    { ZeroMetrics,
      [key \in {"connects"} |-> Num(MaxNum + 10)],
      [ZeroMetrics EXCEPT !.geoData = Null, !.listingsGenerated = Num(-1)] }
CsvAssociates == [id : {0}, name : CsvNames, metrics : CsvMetrics]
RECURSIVE ListsOf(_, _)
ListsOf(S, n) ==
    IF n = 0 THEN {<<>>}
    ELSE ListsOf(S, n - 1) \cup {Append(l, x) : l \in {y \in ListsOf(S, n - 1) : Len(y) = n - 1}, x \in S}

\* exportCSV (291), and the csv of a dispatch (168, 303); one export of a
\* non-empty list in a behaviour
CsvCall ==
    /\ csvIn = <<>>
    /\ \E as \in ListsOf(CsvAssociates, MaxRows) :
          /\ csvIn' = as
          /\ csvOut' = buildCSVFromAssociates(as)
    /\ UNCHANGED <<pc, storeVars, emailVars, rawRead, itemRead, registered, nextId, exported,
                   last, ops, saved, sendVars, bgVars, pctVars, lbVars, idVars>>

SpecCsv == InitPct /\ [][CsvCall]_vars

(***************************************************************************)
(* genId (58-62), with the identifier as the text it is                    *)
(* In the specifications of the app an identifier is the token genId(n);   *)
(* here it is the string the function builds.  What the random sources     *)
(* return is a nondeterministic choice.                                    *)
(***************************************************************************)
MaxClock == 2        \* milliseconds the clock advances in one behaviour

\* globalThis.crypto.randomUUID is missing, returns a UUID, or throws (59)
CryptoKinds == {"none", "works", "throws"}

\* crypto.randomUUID(): hexadecimal groups joined by '-' (shortened to two groups)
RandomUUIDs ==
    { <<"3", "b", "2", "4", "1", "f", "0", "e", "-", "4", "a", "7", "c">>,
      <<"c", "0", "f", "f", "e", "e", "9", "9", "-", "4", "d", "0", "1">> }

\* Math.random().toString(36).slice(2, 10): at most eight characters of 0-9a-z
RandomSuffixes ==
    { <<"k", "3", "f", "9", "x", "0", "a", "b">>, <<"0", "z", "q">>, <<>> }

\* function genId() (58-62)
genIdString(crypto, uuid, rand, t) ==
    IF crypto = "works" THEN uuid
    ELSE <<"i", "d", "-">> \o rand \o <<"-">> \o Digits(t)

\* one call of genId; Date.now() does not go back
GenId ==
    /\ \E uuid \in RandomUUIDs, rand \in RandomSuffixes, dt \in 0..1 :
          /\ idEnv.clock + dt <= MaxClock
          /\ idEnv' = [idEnv EXCEPT !.clock = @ + dt]
          /\ idLog' = (IF idLog = <<>> THEN <<>> ELSE <<idLog[Len(idLog)]>>)
                          \o <<genIdString(idEnv.uuid, uuid, rand, idEnv.clock + dt)>>
    /\ UNCHANGED <<pc, storeVars, emailVars, rawRead, itemRead, registered, nextId, exported,
                   last, ops, saved, sendVars, bgVars, pctVars, csvVars, lbVars>>

InitGenId ==
    /\ InitMemory
    /\ idEnv \in [uuid : CryptoKinds, clock : {0}]
    /\ pStore = AbsentStore /\ pTo = NoItem /\ pWebhook = NoItem /\ pHour = NoItem
SpecGenId == InitGenId /\ [][GenId]_vars

(***************************************************************************)
(* leaderboard (276-279)                                                   *)
(***************************************************************************)
MaxTeam == 6         \* associates in a ranked list
TopN == 5            \* slice(0, 5)

\* a.metrics[k] || 0 (277)
ValueOrZero(m, key) == Num(NumberOrZero(Get(m, key)))

\* the sum over Object.keys(KPI_LABELS) of pct(a.metrics[k] || 0, targets[k]) (277)
RECURSIVE SumPct(_, _, _)
SumPct(m, t, i) ==
    IF i = 0 THEN 0
    ELSE SumPct(m, t, i - 1) + pct(ValueOrZero(m, Metrics[i]), Get(t, Metrics[i])).n

\* the item of an associate (277); progress is the sum divided by the number of
\* labels, kept as the fraction num / den
item(a, t) ==
    [id |-> a.id, name |-> a.name,
     listings |-> NumberOrZero(Get(a.metrics, "listingsGenerated")),
     progress |-> [num |-> SumPct(a.metrics, t, Len(Metrics)), den |-> Len(Metrics)]]

\* the comparator as it would be with the two keys in the other order
compare_progressFirst(a, b) ==
    IF b.progress.num - a.progress.num # 0
    THEN b.progress.num - a.progress.num
    ELSE (b.listings - a.listings) * a.progress.den
\* (a, b) => b.listings - a.listings || b.progress - a.progress (278); the
\* progress difference is scaled by the common denominator
compare(a, b) ==
    IF b.listings - a.listings # 0
    THEN (b.listings - a.listings) * a.progress.den
    ELSE b.progress.num - a.progress.num

\* Array.prototype.sort with a comparator: stable, equal items keep their order
RECURSIVE Insert(_, _)
Insert(sorted, x) ==
    IF sorted = <<>> THEN <<x>>
    ELSE IF compare(Head(sorted), x) <= 0 THEN <<Head(sorted)>> \o Insert(Tail(sorted), x)
    ELSE <<x>> \o sorted
RECURSIVE Sort(_)
Sort(items) ==
    IF items = <<>> THEN <<>>
    ELSE Insert(Sort(SubSeq(items, 1, Len(items) - 1)), items[Len(items)])

\* leaderboard (276-279)
leaderboard(as, t) ==
    LET items == [i \in 1..Len(as) |-> item(as[i], t)]
        sorted == Sort(items)
    IN  SubSeq(sorted, 1, Min(TopN, Len(sorted)))

\* the metrics of ranked associates: a listing, half the connects target, nothing,
\* and an imported mapping with connects only
LbMetrics ==
    { [ZeroMetrics EXCEPT !.listingsGenerated = Num(1)],
      [ZeroMetrics EXCEPT !.connects = Num(400)],
      ZeroMetrics,
      [key \in {"connects"} |-> Num(800)] }
\* the identifiers of a list are those of its places
RECURSIVE TeamsOf(_)
TeamsOf(n) ==
    IF n = 0 THEN {<<>>}
    ELSE TeamsOf(n - 1) \cup
         {Append(l, [id |-> genId(n), name |-> "", metrics |-> m]) :
             l \in {y \in TeamsOf(n - 1) : Len(y) = n - 1}, m \in LbMetrics}
\* the default targets, and imported targets with connects only
LbTargets == {DEFAULT_TARGETS, [key \in {"connects"} |-> Num(1000)]}

\* a render with new associates or targets (279); one ranking of a non-empty
\* list in a behaviour
LeaderboardCall ==
    /\ lbIn.associates = <<>>
    /\ \E as \in TeamsOf(MaxTeam), t \in LbTargets :
          /\ lbIn' = [associates |-> as, targets |-> t]
          /\ lbOut' = leaderboard(as, t)
    /\ UNCHANGED <<pc, storeVars, emailVars, rawRead, itemRead, registered, nextId, exported,
                   last, ops, saved, sendVars, bgVars, pctVars, csvVars, idVars>>

SpecLeaderboard == InitPct /\ [][LeaderboardCall]_vars

(***************************************************************************)
(* Claims about the Store                                                  *)
(***************************************************************************)
HasSamples(as) == \E i \in 1..Len(as) : as[i].name \in {"Alex", "Bianca", "Chris"}

\* C1: after the user selects a month that had no entry in the Store, the
\* current targets are the default targets and the associate list is empty.
C1_SelectAbsentMonthIsFresh ==
    (last.op = "select" /\ last.flag) => (targets = DEFAULT_TARGETS /\ associates = <<>>)

\* C2: importJSON is atomic.  A text that does not parse to an object or lacks
\* one of month, targets, associates is refused (an error is reported) and
\* leaves month, targets, associates, the Store and the persisted Store as they
\* were; an accepted text replaces month, targets and associates by its values;
\* no import replaces only some of the three.
C2_ImportAtomic ==
    [][(last'.op \in {"import", "reimport"} /\ ops' = ops + 1) =>
        LET txt == last'.text IN
        /\ (txt.kind # "object" \/ ~(AllKeys \subseteq txt.keys)) =>
              (~last'.flag /\ UNCHANGED <<month, targets, associates, store, pStore>>)
        /\ last'.flag =>
              (month' = txt.month /\ targets' = txt.targets /\ associates' = txt.associates)
        /\ \/ UNCHANGED <<month, targets, associates>>
           \/ (month' = txt.month /\ targets' = txt.targets /\ associates' = txt.associates)
      ]_vars

\* C2 witness: a text with the three keys was imported over a different state
C2_Imported ==
    /\ last.op = "import" /\ last.flag
    /\ last.text = OtherMonthText
    /\ month = MonthKeys[2] /\ Len(associates) = 1 /\ associates[1].name = "Eve"
    /\ \E m \in DOMAIN store : HasSamples(store[m].associates)

\* C3: importing the text exportJSON printed, after any operations in between,
\* gives back the exported month, targets and associates, and the Store entry
\* of that month equals them.
C3_RoundTrip ==
    last.op = "reimport" =>
        /\ month = exported.month
        /\ targets = exported.targets
        /\ associates = exported.associates
        /\ month \in DOMAIN store
        /\ store[month] = [targets |-> exported.targets, associates |-> exported.associates]

\* C6: the sample associates are seeded at startup only when the persisted Store
\* is empty or absent; when it holds some month but not the current one, the
\* current month starts with the default targets and no associates.
C6_SeedsOnFirstRunOnly ==
    (last.op = "loadStore" /\ pc = "loadTo") =>
        /\ HasSamples(associates) => DOMAIN ParsedStore(rawRead) = {}
        /\ (DOMAIN ParsedStore(rawRead) # {} /\ monthKey \notin DOMAIN ParsedStore(rawRead)) =>
              (targets = DEFAULT_TARGETS /\ associates = <<>>)

(***************************************************************************)
(* Claims about restarts                                                   *)
(***************************************************************************)
\* C4: when a session ended with to, webhookUrl and sendHour persisted as
\* (t, w, h), then once the next start has finished loading (and the user has
\* not edited anything since) the settings in memory are (t, w, h) and the
\* persisted keys still hold (t, w, h).
C4_SettingsSurviveRestart ==
    (/\ pc = "ready" /\ last.op = "register"
     /\ saved.has /\ saved.ops = ops
     /\ saved.to.has /\ saved.webhook.has /\ saved.hour.has) =>
        /\ emailTo = saved.to.v /\ emailWebhook = saved.webhook.v /\ sendHour = saved.hour.v
        /\ pTo = saved.to /\ pWebhook = saved.webhook /\ pHour = saved.hour

\* C5: at every step from process start on, every month of the persisted Store
\* other than the one being edited keeps the MonthState that was persisted for it.
C5_OtherMonthsStayPersisted ==
    [][pStore.kind = "json" =>
        \A m \in DOMAIN pStore.v :
            m # month' =>
                /\ pStore'.kind = "json"
                /\ m \in DOMAIN pStore'.v
                /\ pStore'.v[m] = pStore.v[m]
      ]_vars

(***************************************************************************)
(* Claims about notification and the background task                       *)
(***************************************************************************)
\* C7: a persisted Store that is absent or does not parse never stops the
\* startup (the load goes on to the e-mail settings and the registration) and
\* never makes the background task fail: a run that issued no POST ends NoData.
C7_ReadFailuresRecovered ==
    /\ pc # "aborted"
    /\ (bgpc = "done" /\ bgRead.store.kind \in {"absent", "garbage"} /\ bgPosts = 0) =>
          bgResult = "NoData"

\* the distance of two times of day on the 24-hour clock
ClockDistance(a, b) == Min(Abs(a - b), MinutesPerDay - Abs(a - b))

\* C8: with a send hour h in 0..23 configured, a run of the background task goes
\* on to dispatch exactly when the local time is within 30 minutes before or
\* after h:00; at any other time it issues no POST and returns NoData.
C8_TimeGate ==
    \A h \in 0..23 :
        (bgRead.hour = Item(ToString(h)) /\ bgRead.store.kind # "garbage"
            /\ last.op \in {"bgGate", "bgResponse"}) =>
            IF ClockDistance(now, h * 60) <= 30
            THEN \/ bgpc = "posting" \/ last.op = "bgResponse"
                 \/ (bgpc = "done" /\ last.flag /\ OrElse(bgRead.webhook, "") = "")
            ELSE bgpc = "done" /\ bgPosts = 0 /\ bgResult = "NoData"

\* C9: with a webhook configured an attempt issues one POST and ends sent
\* (NewData) on an OK response and failed (Failed) on any other status or a
\* thrown error; no attempt issues a second POST, and no step of an attempt
\* changes the Store or the e-mail settings.
C9_OnePostOneOutcome ==
    [][/\ sendPosts' <= 1 /\ bgPosts' <= 1
       /\ (sendpc' \in {"posting", "sent", "failed"}) => sendPosts' = 1
       /\ (bgpc' = "posting" \/ bgResult' = "NewData") => bgPosts' = 1
       /\ (sendpc = "idle" /\ sendpc' # "idle" /\ emailWebhook # "") => sendpc' = "posting"
       /\ (sendpc = "posting" /\ sendpc' # "posting") =>
             sendpc' = IF last'.flag THEN "sent" ELSE "failed"
       /\ (bgpc = "posting" /\ bgpc' # "posting") =>
             (bgpc' = "done" /\ bgResult' = IF last'.flag THEN "NewData" ELSE "Failed")
       /\ (sendpc' # sendpc \/ sendPosts' # sendPosts \/ bgpc' # bgpc \/ bgPosts' # bgPosts) =>
             UNCHANGED <<store, pStore, month, targets, associates, emailVars>>
      ]_vars

\* C9 witness: an interactive attempt has failed on a response and a background
\* run has ended NewData, each after its one POST
C9_BothEnded ==
    /\ sendpc = "failed" /\ sendPosts = 1
    /\ bgpc = "done" /\ bgResult = "NewData" /\ bgPosts = 1
    /\ last.op = "sendResponse"

\* C10: pct(actual, target) is 0 when the target is 0 or absent, and otherwise
\* round(100 * actual / target) clamped to [0, 100].
C10_PercentOf ==
    LET n == pctIn[1]
        d == pctIn[2]
    IN  /\ (d.k = "null" \/ (d.k = "num" /\ d.n = 0)) => pctOut = Num(0)
        /\ (n.k = "num" /\ d.k = "num" /\ d.n # 0) =>
              /\ pctOut = Num(Max(0, Min(100, Round(100 * n.n, d.n))))
              /\ pctOut.n >= 0 /\ pctOut.n <= 100
              /\ (n.n >= d.n /\ d.n > 0) => pctOut.n = 100

(***************************************************************************)
(* Claims about the derived views                                          *)
(***************************************************************************)
\* C11: in every reachable state and for each of the five metrics, the team
\* target of the summary text and the team target of the chart and cards are
\* the same number: the per-person target times max(1, headcount), which is
\* the per-person target itself when there are no associates.
C11_TeamTargetAgreement ==
    \A i \in 1..Len(Metrics) :
        LET chart == chartData(targets, associates)[i].target
            text  == buildSnapshotText(month, associates, targets).totals[i].teamTarget
            t     == Get(targets, Metrics[i])
        IN  /\ chart = text
            /\ t.k = "num" => chart = Num(t.n * Max(1, Len(associates)))
            /\ (t.k = "num" /\ associates = <<>>) => chart = t

\* every associate of the list has all five metric keys
CompleteMetrics(as) == \A i \in 1..Len(as) : MetricSet \subseteq DOMAIN as[i].metrics

\* C12: in every reachable state, every associate of the current list and of
\* every Store entry has a metrics mapping with all five metric keys (missing
\* ones were filled with 0 when the data was read in).
C12_MetricsComplete ==
    /\ CompleteMetrics(associates)
    /\ \A m \in DOMAIN store : CompleteMetrics(store[m].associates)
    /\ pStore.kind = "json" => \A m \in DOMAIN pStore.v : CompleteMetrics(pStore.v[m].associates)

(***************************************************************************)
(* Claims about the CSV export                                             *)
(***************************************************************************)
\* A reader of CSV text: a comma or a line break outside double quotes (one
\* with an even number of quotes before it) separates fields or records; a
\* quoted field starts and ends with a double quote, and a doubled quote
\* inside it stands for one quote.
Outside(s, i) == Cardinality({j \in 1..(i - 1) : s[j] = Quote}) % 2 = 0
Breaks(s, c) == {i \in 1..Len(s) : s[i] = c /\ Outside(s, i)}
\* the pieces of s between the positions B
Pieces(s, B) ==
    LET n == Cardinality(B)
        pos(j) == IF j = 0 THEN 0
                  ELSE IF j = n + 1 THEN Len(s) + 1
                  ELSE CHOOSE i \in B : Cardinality({x \in B : x <= i}) = j
    IN  [j \in 1..(n + 1) |-> SubSeq(s, pos(j - 1) + 1, pos(j) - 1)]
Records(s) == Pieces(s, Breaks(s, Newline))
Fields(rec) == Pieces(rec, Breaks(rec, Comma))
IsQuoted(f) == Len(f) >= 2 /\ f[1] = Quote /\ f[Len(f)] = Quote
\* the text between the quotes with doubled quotes undone; a single quote
\* inside is not CSV and is marked
RECURSIVE Unescape(_)
Unescape(t) ==
    IF t = <<>> THEN <<>>
    ELSE IF Head(t) # Quote THEN <<Head(t)>> \o Unescape(Tail(t))
    ELSE IF Len(t) >= 2 /\ t[2] = Quote THEN <<Quote>> \o Unescape(SubSeq(t, 3, Len(t)))
    ELSE <<"not CSV">>
FieldText(f) == Unescape(SubSeq(f, 2, Len(f) - 1))

\* the header line of the export, character by character
HeaderLine ==
    <<"N", "a", "m", "e", ",", "C", "o", "n", "n", "e", "c", "t", "s", ",",
      "G", "e", "o", "D", "a", "t", "a", ",",
      "B", "u", "y", "e", "r", "A", "p", "p", "o", "i", "n", "t", "m", "e", "n", "t", "s", ",",
      "M", "a", "r", "k", "e", "t", "A", "p", "p", "r", "a", "i", "s", "a", "l", "s", ",",
      "L", "i", "s", "t", "i", "n", "g", "s", "G", "e", "n", "e", "r", "a", "t", "e", "d">>

\* the text of a metric in the export: the number, 0 when it is absent
MetricText(m, key) ==
    IF key \in DOMAIN m /\ m[key].k = "num" THEN StringOf(Number(m[key].n)) ELSE <<"0">>

\* C13: the CSV export is the empty string exactly when the associate list is
\* empty; otherwise it is the header line followed by one row per associate in
\* list order, each row with six fields, every field wrapped in double quotes
\* with embedded double quotes doubled, and absent metrics written as 0.
C13_CsvExport ==
    /\ (csvOut = <<>>) <=> (csvIn = <<>>)
    /\ csvIn # <<>> =>
          LET records == Records(csvOut) IN
          /\ Len(records) = 1 + Len(csvIn)
          /\ records[1] = HeaderLine
          /\ \A i \in 1..Len(csvIn) :
                LET r == Fields(records[i + 1])
                    a == csvIn[i]
                IN  /\ Len(r) = 6
                    /\ \A j \in 1..6 : IsQuoted(r[j])
                    /\ FieldText(r[1]) = (IF a.name.k = "str" THEN a.name.s ELSE <<>>)
                    /\ \A j \in 1..5 : FieldText(r[j + 1]) = MetricText(a.metrics, Metrics[j])

\* C13 witness: two associates were exported, one whose name holds double
\* quotes and one with a comma in the name and a metric missing
C13_Exported ==
    /\ Len(csvIn) = 2
    /\ csvIn[1].name = Text(<<Quote, "q", Quote>>)
    /\ csvIn[2].name = Text(<<"a", Comma, " ", "b">>)
    /\ "geoData" \notin DOMAIN csvIn[2].metrics
    /\ csvOut # <<>>

(***************************************************************************)
(* Claims about genId                                                      *)
(***************************************************************************)
\* C14: two consecutive identifier generations return distinct strings, and
\* every generated identifier starts with the literal prefix 'id-', whether
\* or not crypto.randomUUID is available.
C14_GenIdDistinctPrefixed ==
    /\ \A i \in 1..Len(idLog) :
          Len(idLog[i]) >= 3 /\ SubSeq(idLog[i], 1, 3) = <<"i", "d", "-">>
    /\ Len(idLog) = 2 => idLog[1] # idLog[2]

(***************************************************************************)
(* Claims about the leaderboard                                            *)
(***************************************************************************)
\* a ranks strictly above b: more listings, or the same listings and more progress
RanksAbove(a, b) ==
    \/ a.listings > b.listings
    \/ (a.listings = b.listings /\ a.progress.num * b.progress.den > b.progress.num * a.progress.den)

\* the average over the five metrics of pct(metric, target), as a fraction
AverageProgress(a, t) ==
    [num |-> pct(ValueOrZero(a.metrics, "connects"), Get(t, "connects")).n
             + pct(ValueOrZero(a.metrics, "geoData"), Get(t, "geoData")).n
             + pct(ValueOrZero(a.metrics, "buyerAppointments"), Get(t, "buyerAppointments")).n
             + pct(ValueOrZero(a.metrics, "marketAppraisals"), Get(t, "marketAppraisals")).n
             + pct(ValueOrZero(a.metrics, "listingsGenerated"), Get(t, "listingsGenerated")).n,
     den |-> 5]

\* C15: the leaderboard has min(5, number of associates) entries, each a
\* distinct associate of the list with its progress the average over the five
\* metrics of pct(metric, per-person target); the entries are ordered by
\* listingsGenerated descending and, among equal listingsGenerated, by progress
\* descending; no associate left out ranks strictly above an included one.
C15_Leaderboard ==
    LET as == lbIn.associates
        t  == lbIn.targets
        included == {lbOut[i].id : i \in 1..Len(lbOut)}
    IN  /\ Len(lbOut) = Min(5, Len(as))
        /\ Cardinality(included) = Len(lbOut)
        /\ \A i \in 1..Len(lbOut) :
              \E j \in 1..Len(as) :
                 /\ as[j].id = lbOut[i].id /\ as[j].name = lbOut[i].name
                 /\ lbOut[i].listings = NumberOrZero(Get(as[j].metrics, "listingsGenerated"))
                 /\ lbOut[i].progress = AverageProgress(as[j], t)
        /\ \A i \in 1..Len(lbOut), j \in 1..Len(lbOut) :
              i < j => ~RanksAbove(lbOut[j], lbOut[i])
        /\ \A j \in 1..Len(as) :
              as[j].id \notin included =>
                 \A i \in 1..Len(lbOut) : ~RanksAbove(item(as[j], t), lbOut[i])

\* C15 witness: six associates were ranked, one is left out, and the entries
\* differ in listings and, among equal listings, in progress
C15_Ranked ==
    /\ Len(lbIn.associates) = 6
    /\ Len(lbOut) = 5
    /\ lbOut[1].listings = 1 /\ lbOut[2].listings = 0
    /\ RanksAbove(lbOut[2], lbOut[3])
    /\ lbIn.associates[1].metrics = ZeroMetrics

(***************************************************************************)
(* Claims about the associates                                             *)
(***************************************************************************)
DistinctIds(as) == \A i \in 1..Len(as), j \in 1..Len(as) : as[i].id = as[j].id => i = j

SameEntries(M) ==
    /\ \A m \in M :
          /\ (m \in DOMAIN store') <=> (m \in DOMAIN store)
          /\ m \in DOMAIN store => store'[m] = store[m]
    /\ pStore'.kind = pStore.kind
    /\ \A m \in M :
          /\ (m \in DOMAIN pStore'.v) <=> (m \in DOMAIN pStore.v)
          /\ m \in DOMAIN pStore.v => pStore'.v[m] = pStore.v[m]

\* C17: selecting a month changes no entry of the Store, in memory or
\* persisted, that of the selected month included; an add, update, delete or
\* reset performed while month M is selected changes only the entry of M.
C17_MonthIsolation ==
    [][(ops' = ops + 1) =>
        /\ last'.op = "select" => SameEntries(DOMAIN store \cup DOMAIN store' \cup Months)
        /\ last'.op \in {"add", "update", "delete", "reset"} =>
              (month' = month /\ SameEntries((DOMAIN store \cup DOMAIN store' \cup Months) \ {month}))
      ]_vars

====
